---------------------------- MODULE Spec2Model ----------------------------
(***************************************************************************)
(* DataRun: the park ranking of consultas_parques.best_park_for_day and    *)
(* the three mediator lookups it calls (mediator.get_weather_score_for_date,*)
(* get_elevation, get_best_route).                                         *)
(*                                                                         *)
(* Numbers.  Every Python float is a fixed-point integer with Scale units  *)
(* per 1.0, so 5 km is Fx(5) and 5.0033 km is Fx(5) + 2.  Scale is a       *)
(* multiple of 60 and of 100, which makes duration_sec / 60.0,             *)
(* route_min / 10 and the grids of round(x, 1) and round(x, 2) exact.      *)
(* round() is round-half-to-even, as in Python.  The inputs drawn below    *)
(* never sit exactly half-way between two grid points: there a binary      *)
(* float and a decimal fixed-point value may round differently.            *)
(***************************************************************************)
EXTENDS Integers, Sequences, FiniteSets, TLC

VARIABLES
    pc,            \* position of best_park_for_day: start, loop, returned, raised
    parks,         \* the catalog read from the store, in iteration order
    i,             \* 1-based position of the for loop in parks
    temps,         \* hourly temperature_2m of the weather payload
    precs,         \* hourly precipitation of the weather payload
    weather_score, \* result of get_weather_score_for_date
    mejor,         \* running best candidate, None before the first one
    candidatos,    \* candidates appended so far
    calls          \* provider calls made so far, with what each returned

vars == <<pc, parks, i, temps, precs, weather_score, mejor, candidatos, calls>>

---------------------------------------------------------------------------
(* Bounds of the model *)

MaxParks == 2      \* longest catalog
MaxHours == 2      \* longest hourly series given to the weather scorer

---------------------------------------------------------------------------
(* Number representation *)

Scale == 600

Fx(n) == n * Scale

None == <<>>

Some(v) == <<v>>

\* nearest integer to x / d, ties to the even one (d > 0)
RoundDiv(x, d) ==
    LET q == x \div d
        r == x % d
    IN  IF 2 * r < d THEN q
        ELSE IF 2 * r > d THEN q + 1
        ELSE IF q % 2 = 0 THEN q ELSE q + 1

\* round(x, ndigits) for ndigits = 1 and 2
Round(x, ndigits) ==
    LET grid == IF ndigits = 1 THEN Scale \div 10 ELSE Scale \div 100
    IN  RoundDiv(x, grid) * grid

\* truth value of an optional float: None and 0.0 are both false
Truthy(v) == v # None /\ v[1] # 0

---------------------------------------------------------------------------
(* mediator.get_weather_score_for_date: the scoring of the payload *)

Min(a, b) == IF a < b THEN a ELSE b

HourPoints_WideComfort(t, p) ==
    IF p > Fx(2) THEN 0
    ELSE IF Fx(10) <= t /\ t <= Fx(28) THEN 2
    ELSE IF Fx(5) <= t /\ t < Fx(10) THEN 1
    ELSE 0

\* body of the for loop: what one (t, p) pair adds to score
HourPoints(t, p) ==
    IF p > Fx(2) THEN 0
    ELSE IF Fx(10) <= t /\ t <= Fx(24) THEN 2
    ELSE IF (Fx(5) <= t /\ t < Fx(10)) \/ (Fx(24) < t /\ t <= Fx(28)) THEN 1
    ELSE 0

RECURSIVE ZipScore(_, _, _)
\* for t, p in zip(ts, ps): zip stops at the end of the shorter series
ZipScore(ts, ps, n) ==
    IF n = 0 THEN 0
    ELSE ZipScore(ts, ps, n - 1) + HourPoints(ts[n], ps[n])

get_weather_score_for_date(ts, ps) == ZipScore(ts, ps, Min(Len(ts), Len(ps)))

---------------------------------------------------------------------------
(* mediator.get_elevation and mediator.get_best_route, on the payload *)

get_elevation_InclusiveLimits(results) ==
    IF results = <<>> THEN [elevation |-> None, cat |-> "desconocido"]
    ELSE LET elevation == results[1]
         IN  [elevation |-> Some(elevation),
              cat |-> IF elevation <= Fx(650) THEN "llano"
                      ELSE IF elevation <= Fx(750) THEN "moderado"
                      ELSE "elevado"]

\* results: the "results" list of the payload, <<>> when missing or empty
get_elevation(results) ==
    IF results = <<>> THEN [elevation |-> None, cat |-> "desconocido"]
    ELSE LET elevation == results[1]
         IN  [elevation |-> Some(elevation),
              cat |-> IF elevation < Fx(650) THEN "llano"
                      ELSE IF elevation < Fx(750) THEN "moderado"
                      ELSE "elevado"]

\* routes: the "routes" list of the payload, each route given by the
\* duration value (integer seconds) of its first leg
get_best_route(routes) ==
    IF routes = <<>> THEN None
    ELSE LET duration_sec == routes[1]
         IN  Some((duration_sec * Scale) \div 60)

---------------------------------------------------------------------------
(* consultas_parques.best_park_for_day *)

max_distance_km == Fx(15)

TooFar_AtLimit(dist) == dist >= max_distance_km

\* the distance pre-filter of the loop
TooFar(dist) == dist > max_distance_km

CombinedScore_RawMinutes(ws, dist, route_min) ==
    LET score0 == Fx(ws) - dist
    IN  IF Truthy(route_min) THEN score0 - route_min[1] ELSE score0

\* "Score combinado"
CombinedScore(ws, dist, route_min) ==
    LET score0 == Fx(ws) - dist
    IN  IF Truthy(route_min) THEN score0 - (route_min[1] \div 10) ELSE score0

Candidato(park, ws, elev, route_min) ==
    [name               |-> park.name,
     distance_km        |-> Round(park.dist, 2),
     route_minutes      |-> IF ~Truthy(route_min) THEN None
                            ELSE Some(Round(route_min[1], 1)),
     elevation          |-> elev.elevation,
     elevation_category |-> elev.cat,
     weather_score      |-> ws,
     final_score        |-> Round(CombinedScore(ws, park.dist, route_min), 2)]

Replaces_Lower(best, candidato) ==
    best = None \/ candidato.final_score < best.final_score

Replaces_OnTie(best, candidato) ==
    best = None \/ candidato.final_score >= best.final_score

\* whether the new candidate becomes the running best
Replaces(best, candidato) ==
    best = None \/ candidato.final_score > best.final_score

Call(svc, park, ok, resp) == [svc |-> svc, park |-> park, ok |-> ok, resp |-> resp]

LookupCalls_RouteFirst(name, results, route_ok, routes) ==
    << Call("route", name, route_ok, routes), Call("elevation", name, TRUE, results) >>

\* the two lookups of one park, in the order the loop makes them:
\* get_elevation returns, then get_best_route is called
LookupCalls(name, results, route_ok, routes) ==
    << Call("elevation", name, TRUE, results), Call("route", name, route_ok, routes) >>

---------------------------------------------------------------------------
(* Inputs *)

DistValues == {Fx(5), Fx(5) + 2, Fx(15), Fx(15) + 1}

Catalogs ==
    UNION { { [k \in 1..n |-> [name |-> k, dist |-> f[k]]] : f \in [1..n -> DistValues] }
            : n \in 0..MaxParks }

ElevationResults == {<<>>, <<Fx(650) - 1>>, <<Fx(650)>>, <<Fx(750) - 1>>, <<Fx(750)>>}

RouteResults == {<<>>, <<0>>, <<1800>>, <<1802>>}

\* forecasts answered to the ranking: ten comfortable dry hours, one wet hour
DayForecasts ==
    { [temps |-> [h \in 1..10 |-> Fx(15)], precs |-> [h \in 1..10 |-> 0]],
      [temps |-> <<Fx(15)>>, precs |-> <<Fx(3)>>] }

TempValues == {Fx(5) - 1, Fx(5), Fx(10) - 1, Fx(10), Fx(24), Fx(24) + 1, Fx(28), Fx(28) + 1}

PrecValues == {0, Fx(2), Fx(2) + 1}

HourlySeries(S) == UNION { [1..n -> S] : n \in 0..MaxHours }

---------------------------------------------------------------------------
(* Actions *)

Init ==
    /\ pc = "start"
    /\ parks \in Catalogs
    /\ i = 1
    /\ temps = <<>>
    /\ precs = <<>>
    /\ weather_score = 0
    /\ mejor = None
    /\ candidatos = <<>>
    /\ calls = <<>>

\* the weather call answers with the series ts, ps
WeatherCall(ts, ps) ==
    /\ pc = "start"
    /\ temps' = ts
    /\ precs' = ps
    /\ weather_score' = get_weather_score_for_date(ts, ps)
    /\ calls' = Append(calls, Call("weather", 0, TRUE, <<>>))
    /\ pc' = "loop"
    /\ UNCHANGED <<parks, i, mejor, candidatos>>

FetchWeather == \E f \in DayForecasts : WeatherCall(f.temps, f.precs)

\* requests.get or raise_for_status raises in get_weather_score_for_date
WeatherFails ==
    /\ pc = "start"
    /\ calls' = Append(calls, Call("weather", 0, FALSE, <<>>))
    /\ pc' = "raised"
    /\ UNCHANGED <<parks, i, temps, precs, weather_score, mejor, candidatos>>

SkipPark ==
    /\ pc = "loop"
    /\ i <= Len(parks)
    /\ TooFar(parks[i].dist)
    /\ i' = i + 1
    /\ UNCHANGED <<pc, parks, temps, precs, weather_score, mejor, candidatos, calls>>

EvaluatePark ==
    /\ pc = "loop"
    /\ i <= Len(parks)
    /\ ~TooFar(parks[i].dist)
    /\ \E results \in ElevationResults, routes \in RouteResults :
        LET park      == parks[i]
            elev      == get_elevation(results)
            route_min == get_best_route(routes)
            candidato == Candidato(park, weather_score, elev, route_min)
        IN  /\ candidatos' = Append(candidatos, candidato)
            /\ mejor' = IF Replaces(mejor, candidato) THEN candidato ELSE mejor
            /\ calls' = calls \o LookupCalls(park.name, results, TRUE, routes)
    /\ i' = i + 1
    /\ UNCHANGED <<pc, parks, temps, precs, weather_score>>

\* requests.get or raise_for_status raises in get_elevation
ElevationFails ==
    /\ pc = "loop"
    /\ i <= Len(parks)
    /\ ~TooFar(parks[i].dist)
    /\ calls' = Append(calls, Call("elevation", parks[i].name, FALSE, <<>>))
    /\ pc' = "raised"
    /\ UNCHANGED <<parks, i, temps, precs, weather_score, mejor, candidatos>>

\* get_elevation returns, then requests.get or raise_for_status raises in
\* get_best_route
RouteFails ==
    /\ pc = "loop"
    /\ i <= Len(parks)
    /\ ~TooFar(parks[i].dist)
    /\ \E results \in ElevationResults :
        calls' = calls \o LookupCalls(parks[i].name, results, FALSE, <<>>)
    /\ pc' = "raised"
    /\ UNCHANGED <<parks, i, temps, precs, weather_score, mejor, candidatos>>

Return ==
    /\ pc = "loop"
    /\ i > Len(parks)
    /\ pc' = "returned"
    /\ UNCHANGED <<parks, i, temps, precs, weather_score, mejor, candidatos, calls>>

Next ==
    \/ FetchWeather
    \/ WeatherFails
    \/ SkipPark
    \/ EvaluatePark
    \/ ElevationFails
    \/ RouteFails
    \/ Return

Spec == Init /\ [][Next]_vars

---------------------------------------------------------------------------
(* The weather scorer on its own: any pair of hourly series *)

InitWeather == Init /\ parks = <<>>

ScoreAnySeries ==
    /\ pc = "start"
    /\ \E ts \in HourlySeries(TempValues), ps \in HourlySeries(PrecValues) :
        WeatherCall(ts, ps)

NextWeather ==
    \/ ScoreAnySeries
    \/ WeatherFails
    \/ Return

SpecWeather == InitWeather /\ [][NextWeather]_vars

---------------------------------------------------------------------------
(* What the providers answered, read back from the call log *)

AnswerTo(svc, name) ==
    LET k == CHOOSE j \in 1..Len(calls) : calls[j].svc = svc /\ calls[j].park = name
    IN  calls[k].resp

ElevationAnswer(name) == AnswerTo("elevation", name)

RouteAnswer(name) == AnswerTo("route", name)

\* positions of the parks within max_distance_km, in catalog order
InRange == SelectSeq([k \in 1..Len(parks) |-> k], LAMBDA k : parks[k].dist <= Fx(15))

\* the loop's local "score" of a candidate, before rounding
FullScore(c) ==
    CombinedScore(c.weather_score, parks[c.name].dist, get_best_route(RouteAnswer(c.name)))

Returned == pc = "returned"

---------------------------------------------------------------------------
(* Properties *)

\* C1: when best_park_for_day returns, best is absent exactly when the
\* candidate list is empty, which is exactly when no park is within
\* max_distance_km; otherwise best is one of the returned candidates and no
\* candidate has a greater final_score.
BestHasMaxFinalScore ==
    Returned =>
        /\ (mejor = None) <=> (candidatos = <<>>)
        /\ (candidatos = <<>>) <=> (\A k \in 1..Len(parks) : parks[k].dist > Fx(15))
        /\ mejor # None =>
            /\ \E k \in 1..Len(candidatos) : candidatos[k] = mejor
            /\ \A k \in 1..Len(candidatos) :
                candidatos[k].final_score <= mejor.final_score

BestIsLaterGreaterCandidate ==
    /\ Returned
    /\ Len(candidatos) >= 2
    /\ mejor = candidatos[2]
    /\ candidatos[1].final_score < candidatos[2].final_score

\* C2: at every point of the loop the running best is the earliest of the
\* candidates that hold the greatest final_score so far: every candidate
\* before it has a strictly smaller final_score, so a tie never replaces it.
TieKeepsEarlierCandidate ==
    mejor # None =>
        \E k \in 1..Len(candidatos) :
            /\ candidatos[k] = mejor
            /\ \A j \in 1..(k - 1) : candidatos[j].final_score < mejor.final_score
            /\ \A j \in 1..Len(candidatos) : candidatos[j].final_score <= mejor.final_score

TieBetweenTwoCandidates ==
    /\ Returned
    /\ Len(candidatos) >= 2
    /\ candidatos[1].final_score = candidatos[2].final_score
    /\ mejor = candidatos[1]
    /\ mejor # candidatos[2]

\* C3: when best_park_for_day returns, the candidate list holds one
\* candidate for each park whose distance is <= max_distance_km, in catalog
\* order, and nothing else; a park exactly at max_distance_km is in it.
CandidatesAreParksInRange ==
    Returned =>
        LET near == InRange
        IN  /\ Len(candidatos) = Len(near)
            /\ \A k \in 1..Len(candidatos) :
                /\ candidatos[k].name = parks[near[k]].name
                /\ candidatos[k].distance_km = Round(parks[near[k]].dist, 2)

ParkAtLimitKeptFartherDropped ==
    /\ Returned
    /\ Len(parks) = 2
    /\ parks[1].dist > Fx(15)
    /\ parks[2].dist = Fx(15)
    /\ Len(candidatos) = 1
    /\ candidatos[1].name = parks[2].name

\* C4: every candidate's final_score is round(weather_score - distance_km
\* - route_minutes / 10, 2) when the route provider gave a duration, and
\* round(weather_score - distance_km, 2) when it gave no route, with
\* route_minutes the duration in seconds divided by 60.
FinalScoreFormula ==
    \A k \in 1..Len(candidatos) :
        LET c      == candidatos[k]
            routes == RouteAnswer(c.name)
            dist   == parks[c.name].dist
            full   == IF routes # <<>>
                      THEN Fx(c.weather_score) - dist - ((routes[1] * Scale) \div 600)
                      ELSE Fx(c.weather_score) - dist
        IN  c.final_score = Round(full, 2)

Weather20Distance5Route30Scores12 ==
    \E k \in 1..Len(candidatos) :
        /\ candidatos[k].weather_score = 20
        /\ parks[candidatos[k].name].dist = Fx(5)
        /\ RouteAnswer(candidatos[k].name) = <<1800>>
        /\ candidatos[k].final_score = Fx(12)

\* C5: a failed elevation or route call for a park within max_distance_km
\* does not abort the ranking: the run does not end in an exception, and
\* when it returns the park of the failed call is in the candidate list.
LookupFailureDoesNotAbort ==
    \A k \in 1..Len(calls) :
        (calls[k].svc \in {"elevation", "route"} /\ ~calls[k].ok) =>
            /\ pc # "raised"
            /\ Returned => \E j \in 1..Len(candidatos) : candidatos[j].name = calls[k].park

\* C6: the weather scorer never returns a score for hourly series of
\* different lengths.
ScorerRejectsUnequalLengths ==
    Len(temps) # Len(precs) => pc \notin {"loop", "returned"}

ClaimedHour(t, p) ==
    IF p > Fx(2) THEN 0
    ELSE IF t >= Fx(10) /\ t <= Fx(24) THEN 2
    ELSE IF t >= Fx(5) /\ t < Fx(10) THEN 1
    ELSE IF t > Fx(24) /\ t <= Fx(28) THEN 1
    ELSE 0

RECURSIVE ClaimedSum(_)
ClaimedSum(n) == IF n = 0 THEN 0 ELSE ClaimedSum(n - 1) + ClaimedHour(temps[n], precs[n])

\* C7: for hourly series of equal length the weather score is the sum over
\* the hours of 0 when precipitation > 2, else 2 for a temperature in
\* [10, 24], 1 for one in [5, 10) or (24, 28], 0 otherwise; it lies between 0
\* and twice the number of hours.
WeatherScoreFormula ==
    (pc \in {"loop", "returned"} /\ Len(temps) = Len(precs)) =>
        /\ weather_score = ClaimedSum(Len(temps))
        /\ 0 <= weather_score
        /\ weather_score <= 2 * Len(temps)

RainVoidsHourWarmHourScoresOne ==
    /\ pc = "loop"
    /\ Len(temps) = 2
    /\ Len(precs) = 2
    /\ temps[1] = Fx(10)
    /\ precs[1] > Fx(2)
    /\ temps[2] = Fx(24) + 1
    /\ precs[2] = Fx(2)
    /\ weather_score = 1

\* C8: a candidate's elevation and category follow the elevation payload:
\* no results give (None, "desconocido"); otherwise the elevation is the
\* payload's value unchanged and the category is "llano" exactly below 650,
\* "moderado" exactly from 650 up to but not including 750, "elevado"
\* exactly from 750.
ElevationClassification ==
    \A k \in 1..Len(candidatos) :
        LET c       == candidatos[k]
            results == ElevationAnswer(c.name)
        IN  IF results = <<>>
            THEN c.elevation = None /\ c.elevation_category = "desconocido"
            ELSE /\ c.elevation = Some(results[1])
                 /\ c.elevation_category \in {"llano", "moderado", "elevado"}
                 /\ (c.elevation_category = "llano") <=> (results[1] < Fx(650))
                 /\ (c.elevation_category = "moderado") <=>
                        (Fx(650) <= results[1] /\ results[1] < Fx(750))
                 /\ (c.elevation_category = "elevado") <=> (results[1] >= Fx(750))

BoundaryElevationsClassified ==
    /\ Len(candidatos) >= 2
    /\ ElevationAnswer(candidatos[1].name) = <<Fx(650)>>
    /\ candidatos[1].elevation_category = "moderado"
    /\ ElevationAnswer(candidatos[2].name) = <<Fx(750)>>
    /\ candidatos[2].elevation_category = "elevado"

\* C9: when best_park_for_day returns, no candidate has a full-precision
\* score strictly greater than that of best, also among candidates whose
\* final_score rounds to the same value.
BestHasMaxFullPrecisionScore ==
    (Returned /\ mejor # None) =>
        \A k \in 1..Len(candidatos) : FullScore(candidatos[k]) <= FullScore(mejor)

\* C10: a candidate's route_minutes is None exactly when the route provider
\* gave no route; for every duration it gave, 0 seconds included,
\* route_minutes is round(seconds / 60, 1) and is not negative.
RouteMinutesAbsentIffNoRoute ==
    \A k \in 1..Len(candidatos) :
        LET c      == candidatos[k]
            routes == RouteAnswer(c.name)
        IN  /\ (c.route_minutes = None) <=> (routes = <<>>)
            /\ routes # <<>> =>
                /\ c.route_minutes = Some(Round((routes[1] * Scale) \div 60, 1))
                /\ c.route_minutes[1] >= 0

\* the calls of a complete run, by provider and park: the weather call,
\* then an elevation call and a route call for each park within
\* max_distance_km, in catalog order
ExpectedCalls ==
    LET near == InRange
    IN  [j \in 1..(1 + 2 * Len(near)) |->
            IF j = 1 THEN [svc |-> "weather", park |-> 0]
            ELSE [svc  |-> IF j % 2 = 0 THEN "elevation" ELSE "route",
                  park |-> parks[near[j \div 2]].name]]

=============================================================================
